---- MODULE Spec2Model ----
(***************************************************************************)
(* taskhut.AnnotationTool (src/taskhut/annotation_tool.py): the current-   *)
(* task cursor, the annotate write path, the recent-history buffer and the *)
(* progress report, over a disk cache shared by the tool instances.        *)
(*                                                                         *)
(* Strings (usernames, digests, cache keys, ISO timestamps) are sequences  *)
(* of code points, so that concatenation, prefixes and Python's string     *)
(* comparison are computed and not assumed.  A task (a dict of the data    *)
(* source) is a small integer naming the dict.                             *)
(***************************************************************************)
EXTENDS Integers, Sequences, FiniteSets, TLC

(* ------------------------------ bounds --------------------------------- *)
MaxHistory == 2     \* recent_history_size ranges over 1..MaxHistory
MaxLimit == 1       \* get_recent_tasks(limit) ranges over None and 0..MaxLimit
MaxClock == 10      \* the clock stops advancing at this tick

(* ------------------------------ values --------------------------------- *)
\* a task is one of 1..5; None stands for Python's None where a task or an
\* iterator position is expected, NoMetadata/NoLimit for an omitted argument
None == 0
NoMetadata == "None"
NoLimit == <<>>
Tasks == {1, 2, 3, 4, 5}
Tools == {1, 2, 3, 4}

COLON == <<58>>
DOT == <<46>>
Digit(d) == 48 + d

\* the label values a caller passes: two mappings and a plain string
DictLabels == {"L1", "L2"}
StrLabel == "positive"
\* the metadata values a caller passes: omitted, the empty mapping, a mapping
EmptyMap == "{}"
Metadatas == {NoMetadata, EmptyMap, "M1"}

\* the usernames of the tools: "a", "b" and "a:a" (any str is accepted);
\* tool 4 is a second instance for the user "a"
Username(i) ==
    IF i \in {1, 4} THEN <<97>> ELSE IF i = 2 THEN <<98>> ELSE <<97>> \o COLON \o <<97>>

(* ----------------------- pluggable functions --------------------------- *)
\* default_hash_func: a digest, one per distinct dict, made of hex digits
default_hash_func(example) == <<Digit(example)>>

\* a caller-supplied hash_func: tasks 2 and 3 collide, and the digest of
\* task 4 contains a colon ("a:1")
custom_hash_func(example) ==
    CASE example = 2 -> <<120>>
      [] example = 3 -> <<120>>
      [] example = 4 -> <<97>> \o COLON \o <<Digit(1)>>
      [] OTHER -> <<Digit(example)>>

HashFuncs == {"default", "custom"}
ApplyHash(h, example) ==
    IF h = "default" THEN default_hash_func(example) ELSE custom_hash_func(example)

\* default_routing_func: every task goes to every user
default_routing_func(example, username) == TRUE

\* the tests' custom_routing: example.get("user_assigned") == username,
\* with the odd tasks assigned to "a" and the even ones to "b"
custom_routing(example, username) ==
    username = (IF example % 2 = 1 THEN <<97>> ELSE <<98>>)

RoutingFuncs == {"default", "custom"}
ApplyRouting(r, example, username) ==
    IF r = "default" THEN default_routing_func(example, username)
    ELSE custom_routing(example, username)

(* --------------------------- sequence helpers -------------------------- *)
Range(s) == {s[k] : k \in 1..Len(s)}

RemoveFirst(s, x) ==
    IF \E k \in 1..Len(s) : s[k] = x
    THEN LET p == CHOOSE k \in 1..Len(s) : s[k] = x /\ \A j \in 1..(k-1) : s[j] # x
         IN SubSeq(s, 1, p-1) \o SubSeq(s, p+1, Len(s))
    ELSE s

Reverse(s) == [k \in 1..Len(s) |-> s[Len(s) + 1 - k]]

IsPrefix(p, s) == Len(p) <= Len(s) /\ SubSeq(s, 1, Len(p)) = p

\* Python's str comparison s <= t: lexicographic by code point
RECURSIVE StrLeq(_, _)
StrLeq(s, t) ==
    IF s = <<>> THEN TRUE
    ELSE IF t = <<>> THEN FALSE
    ELSE IF Head(s) < Head(t) THEN TRUE
    ELSE IF Head(s) > Head(t) THEN FALSE
    ELSE StrLeq(Tail(s), Tail(t))

(* ------------------------------ clock ---------------------------------- *)
\* datetime.isoformat(): zero-padded fixed-width fields, and the fraction
\* is left out when it is zero.  A tick is a tenth of a second here (the
\* source has microseconds and six fraction digits); the fields above the
\* seconds are constant over a run and left out.
IsoFormat(n) ==
    LET sec == n \div 10
        frac == n % 10
    IN <<Digit(sec \div 10), Digit(sec % 10)>>
         \o (IF frac = 0 THEN <<>> ELSE DOT \o <<Digit(frac)>>)

(* ------------------------------ state ---------------------------------- *)
VARIABLES
    data_source,          \* self.data_source: the ordered tasks
    routing_func,         \* self.routing_func
    hash_func,            \* self.hash_func
    recent_history_size,  \* self.recent_history_size
    cache,                \* the disk cache: cache key -> record
    recent_hashes,        \* self._recent_hashes, per tool
    current_task,         \* self._current_task, per tool
    task_iterator,        \* self._task_iterator, per tool: None or the next index to examine
    clock,                \* what datetime.now() reads
    ret,                  \* the last call: operation, tool, arguments, result, and ctx,
                          \*   what the call found (history kept for the properties)
    seen,                 \* per tool: result of the last get_current_task, Unset after any annotate call
    held,                 \* per tool: task, the result of the last get_current_task, Unset after
                          \*   an annotate with that task's cache key; others, whether an
                          \*   annotate with another cache key was saved since
    pending,              \* per tool: the task annotated right after get_current_task returned it
    loop,                 \* the run of "while task := get_current_task(): annotate(task, label)":
                          \*   running, tool, todo (the keys of the routed tasks without a record
                          \*   at its start), returned (the results of its get_current_task
                          \*   calls) and annotated (the number of its annotate calls)
    files,                \* the filesystem: path -> the records written there
    inflight              \* per tool: the locals of an annotate call between its read of
                          \*   the store (line 186) and its write (line 203), or NoCall

config == <<data_source, routing_func, hash_func, recent_history_size>>
vars == <<data_source, routing_func, hash_func, recent_history_size, cache,
          recent_hashes, current_task, task_iterator, clock, ret, seen, held, pending,
          loop, files, inflight>>
ghosts == <<seen, held, pending, loop>>

Unset == -1
NotHeld == [task |-> Unset, others |-> FALSE]
NoCall == [example |-> None]
NoLoop == [running |-> FALSE, tool |-> 0, todo |-> {}, returned |-> <<>>, annotated |-> 0]

(* --------------------------- the tool's code --------------------------- *)
\* a key without the username
_cache_key_no_user(i, example) == ApplyHash(hash_func, example)

\* lines 104-115
_cache_key(i, example) == Username(i) \o COLON \o ApplyHash(hash_func, example)

Routed(i, example) == ApplyRouting(routing_func, example, Username(i))

\* Yields without the cache lookup of line 135
Yields_routing_only(i, c, k) == Routed(i, data_source[k])

\* the condition under which get_tasks yields data_source[k]
Yields(i, c, k) ==
    /\ Routed(i, data_source[k])
    /\ _cache_key(i, data_source[k]) \notin DOMAIN c

\* get_tasks that yields in the reverse of the data-source order
get_tasks_reversed(i, c) ==
    LET F[k \in 0..Len(data_source)] ==
          IF k = 0 THEN <<>>
          ELSE IF Yields(i, c, k) THEN <<data_source[k]>> \o F[k-1] ELSE F[k-1]
    IN F[Len(data_source)]

\* list(tool.get_tasks()): the yielded tasks in data-source order
get_tasks(i, c) ==
    LET F[k \in 0..Len(data_source)] ==
          IF k = 0 THEN <<>>
          ELSE IF Yields(i, c, k) THEN Append(F[k-1], data_source[k]) ELSE F[k-1]
    IN F[Len(data_source)]

\* next(generator) for a generator suspended before index from: the index
\* of the next yield, or 0 on StopIteration
NextYield(i, c, from) ==
    IF \E k \in from..Len(data_source) : Yields(i, c, k)
    THEN CHOOSE k \in from..Len(data_source) :
            Yields(i, c, k) /\ \A j \in from..(k-1) : ~Yields(i, c, j)
    ELSE 0

\* deque(maxlen=n).append(x)
DequeAppend(q, x, n) ==
    LET s == Append(q, x)
    IN IF Len(s) > n THEN SubSeq(s, Len(s) - n + 1, Len(s)) ELSE s

\* Record with the two clock reads exchanged
Record_dates_swapped(i, example, annotation, metadata, creation_date, annotation_date) ==
    [example_hash |-> ApplyHash(hash_func, example),
     example |-> example,
     user |-> Username(i),
     annotation |-> annotation,
     creation_date |-> annotation_date,
     annotation_date |-> creation_date,
     metadata |-> IF metadata = NoMetadata THEN EmptyMap ELSE metadata]

\* Record without "metadata or {}"
Record_raw_metadata(i, example, annotation, metadata, creation_date, annotation_date) ==
    [example_hash |-> ApplyHash(hash_func, example),
     example |-> example,
     user |-> Username(i),
     annotation |-> annotation,
     creation_date |-> creation_date,
     annotation_date |-> annotation_date,
     metadata |-> metadata]

\* the record annotate builds (lines 192-200); metadata or {} twice
Record(i, example, annotation, metadata, creation_date, annotation_date) ==
    [example_hash |-> ApplyHash(hash_func, example),
     example |-> example,
     user |-> Username(i),
     annotation |-> annotation,
     creation_date |-> creation_date,
     annotation_date |-> annotation_date,
     metadata |-> IF metadata = NoMetadata THEN EmptyMap ELSE metadata]

\* Validates that also wants the task to be in the data source
Validates_in_source(record) ==
    record.annotation \in DictLabels /\ record.example \in Range(data_source)

\* Annotation(**record) validates: annotation must be a mapping
Validates(record) == record.annotation \in DictLabels

\* CachePut that keeps the record a key already has
CachePut_first_wins(c, key, value) ==
    [k \in DOMAIN c \cup {key} |-> IF k \in DOMAIN c THEN c[k] ELSE value]

\* CachePut that drops the records of the other keys
CachePut_clear(c, key, value) == [k \in {key} |-> value]

\* CachePut that loses the write
CachePut_lost(c, key, value) == c

\* self.cache[cache_key] = value
CachePut(c, key, value) ==
    [k \in DOMAIN c \cup {key} |-> IF k = key THEN value ELSE c[k]]

\* UpdateRecent without the removal of lines 206-207
UpdateRecent_no_remove(q, key, n) == DequeAppend(q, key, n)

\* lines 206-208: remove if present, then append to the bounded deque
UpdateRecent(q, key, n) == DequeAppend(RemoveFirst(q, key), key, n)

\* Invalidate on every annotate, whatever the key
Invalidate_always(i, cur, key) == None

\* Invalidate left out: the cached task survives its own annotation
Invalidate_never(i, cur, key) == cur

\* lines 211-214: the cursor is invalidated when the keys are equal
Invalidate(i, cur, key) ==
    IF cur # None /\ _cache_key(i, cur) = key THEN None ELSE cur

\* CreationDate that stamps every save
CreationDate_always_now(existing, c, key, now) == IsoFormat(now)

\* line 187: the creation date of an existing record is kept
CreationDate(existing, c, key, now) ==
    IF existing THEN c[key].creation_date ELSE IsoFormat(now)

\* ResolveCurrent without the "is None" test of line 152
ResolveCurrent_always_next(cur, k) ==
    IF k = 0 THEN None ELSE data_source[k]

\* lines 152-164: the cached task if there is one, else the generator's
\* next yield (index k, 0 on StopIteration)
ResolveCurrent(cur, k) ==
    IF cur # None THEN cur
    ELSE IF k = 0 THEN None ELSE data_source[k]

(* ------------------------------ actions -------------------------------- *)
\* the store after an annotate call that wrote before it validated
OnRaise_written(c, key, record) == CachePut(c, key, record)

\* the store after an annotate call that raised: line 203 evaluates
\* Annotation(**record) before it assigns, so nothing is written
OnRaise(c, key, record) == c

\* lines 189-214: the record is built from what line 186 read (existing,
\* creation_date), validated, written, and the history and the cursor of
\* tool i are updated; t2 is the second reading of the clock
Save(i, example, annotation, metadata, creation_date, t2) ==
    LET cache_key == _cache_key(i, example)
        existing == cache_key \in DOMAIN cache
        sameKey(t) == t \notin {None, Unset} /\ _cache_key(i, t) = cache_key
        otherKey(t) == t \notin {None, Unset} /\ _cache_key(i, t) # cache_key
        call == [op |-> "annotate", tool |-> i,
                 arg |-> <<example, annotation, metadata>>, result |-> cache_key,
                 ctx |-> [metadata |-> IF existing THEN cache[cache_key].metadata
                                       ELSE "absent",
                          in_recent |-> cache_key \in Range(recent_hashes[i]),
                          recent_len |-> Len(recent_hashes[i])]]
        record == Record(i, example, annotation, metadata, creation_date, IsoFormat(t2))
    IN /\ clock' = t2
       /\ seen' = [seen EXCEPT ![i] = Unset]
       /\ loop' = IF loop.running /\ loop.tool = i
                  THEN [loop EXCEPT !.annotated = @ + 1] ELSE loop
       /\ IF Validates(record)
          THEN /\ cache' = CachePut(cache, cache_key, record)
               /\ recent_hashes' = [recent_hashes EXCEPT
                      ![i] = UpdateRecent(@, cache_key, recent_history_size)]
               /\ current_task' = [current_task EXCEPT
                      ![i] = Invalidate(i, @, cache_key)]
               /\ pending' = [pending EXCEPT
                      ![i] = IF seen[i] = example THEN example ELSE @]
               /\ held' = [held EXCEPT ![i] =
                      IF sameKey(@.task) THEN NotHeld
                      ELSE [task |-> @.task, others |-> @.others \/ otherKey(@.task)]]
               /\ ret' = call @@ [raised |-> ""]
          ELSE /\ cache' = OnRaise(cache, cache_key, record)
               /\ UNCHANGED <<recent_hashes, current_task, pending, held>>
               /\ ret' = call @@ [raised |-> "ValidationError"]
       /\ UNCHANGED <<config, task_iterator, files>>

\* annotate with nothing else running between its read and its write;
\* d1, d2: the ticks that pass before the first and the second now()
Annotate(i, example, annotation, metadata, d1, d2) ==
    LET cache_key == _cache_key(i, example)
        existing == cache_key \in DOMAIN cache
        t1 == clock + d1
        t2 == t1 + d2
    IN /\ t2 <= MaxClock
       /\ inflight[i] = NoCall
       /\ Save(i, example, annotation, metadata,
               CreationDate(existing, cache, cache_key, t1), t2)
       /\ UNCHANGED inflight

\* annotate up to line 187, when another instance may run before line 203:
\* the key is computed, the store is read and creation_date is fixed
BeginAnnotate(i, example, annotation, metadata, d1) ==
    LET cache_key == _cache_key(i, example)
        existing == cache_key \in DOMAIN cache
        t1 == clock + d1
    IN /\ t1 <= MaxClock
       /\ inflight[i] = NoCall
       /\ inflight' = [inflight EXCEPT ![i] =
              [example |-> example, annotation |-> annotation, metadata |-> metadata,
               creation_date |-> CreationDate(existing, cache, cache_key, t1)]]
       /\ clock' = t1
       /\ ret' = [op |-> "annotate_read", tool |-> i,
                  arg |-> <<example, annotation, metadata>>, result |-> cache_key,
                  raised |-> "", ctx |-> <<>>]
       /\ UNCHANGED <<config, cache, recent_hashes, current_task, task_iterator,
                      ghosts, files>>

\* the rest of that annotate call, from line 189 on
EndAnnotate(i, d2) ==
    LET f == inflight[i]
    IN /\ f # NoCall
       /\ clock + d2 <= MaxClock
       /\ Save(i, f.example, f.annotation, f.metadata, f.creation_date, clock + d2)
       /\ inflight' = [inflight EXCEPT ![i] = NoCall]

\* a constructor that fills the buffer from the store
NewRecent_from_store(c, i) ==
    IF \E k \in DOMAIN c : IsPrefix(Username(i) \o COLON, k)
    THEN <<CHOOSE k \in DOMAIN c : IsPrefix(Username(i) \o COLON, k)>>
    ELSE <<>>

\* line 98: deque(maxlen=recent_history_size), whatever the store holds
NewRecent(c, i) == <<>>

\* AnnotationTool(...) again on the same store (lines 75-102): a new
\* instance takes the place of tool i; live is what the old instance's
\* get_current_task would have returned
Construct(i) ==
    LET from == IF task_iterator[i] = None THEN 1 ELSE task_iterator[i]
        live == ResolveCurrent(current_task[i], NextYield(i, cache, from))
    IN /\ inflight[i] = NoCall
       /\ recent_hashes' = [recent_hashes EXCEPT ![i] = NewRecent(cache, i)]
       /\ current_task' = [current_task EXCEPT ![i] = None]
       /\ task_iterator' = [task_iterator EXCEPT ![i] = None]
       /\ seen' = [seen EXCEPT ![i] = Unset]
       /\ held' = [held EXCEPT ![i] = NotHeld]
       /\ pending' = [pending EXCEPT ![i] = None]
       /\ ret' = [op |-> "construct", tool |-> i, arg |-> None, result |-> None,
                  raised |-> "", ctx |-> [live |-> live]]
       /\ UNCHANGED <<config, cache, clock, loop, files, inflight>>

\* a generator that is dropped after every call
NextIterator_dropped(it, k) == None

\* lines 160-164: after next() the generator is suspended just past its
\* yield (index k), and on StopIteration (k = 0) it is dropped
NextIterator(it, k) == IF k = 0 THEN None ELSE k + 1

GetCurrentTask(i) ==
    LET from == IF task_iterator[i] = None THEN 1 ELSE task_iterator[i]
        k == NextYield(i, cache, from)
        new_current == ResolveCurrent(current_task[i], k)
    IN /\ current_task' = [current_task EXCEPT ![i] = new_current]
       /\ task_iterator' = [task_iterator EXCEPT
              ![i] = IF current_task[i] # None THEN @ ELSE NextIterator(@, k)]
       /\ ret' = [op |-> "get_current_task", tool |-> i, arg |-> None,
                  result |-> new_current, raised |-> "",
                  ctx |-> [seen |-> seen[i], held |-> held[i], pending |-> pending[i]]]
       /\ seen' = [seen EXCEPT ![i] = new_current]
       /\ held' = [held EXCEPT ![i] = [task |-> new_current, others |-> FALSE]]
       /\ pending' = [pending EXCEPT ![i] = None]
       /\ loop' = IF loop.running /\ loop.tool = i
                  THEN [loop EXCEPT !.returned = Append(@, new_current)] ELSE loop
       /\ UNCHANGED <<config, cache, recent_hashes, clock, files, inflight>>

GetTasks(i) ==
    /\ ret' = [op |-> "get_tasks", tool |-> i, arg |-> None,
               result |-> get_tasks(i, cache), raised |-> "", ctx |-> <<>>]
    /\ UNCHANGED <<config, cache, recent_hashes, current_task, task_iterator,
                   clock, ghosts, files, inflight>>

\* list(self._recent_hashes)[-limit:]; note that s[-0:] is all of s
LastSlice(s, limit) ==
    IF limit = 0 \/ limit >= Len(s) THEN s
    ELSE SubSeq(s, Len(s) - limit + 1, Len(s))

\* lines 227-244; the result is [raised, value]
get_recent_tasks(i, c, q, limit) ==
    LET lim == IF limit = NoLimit THEN recent_history_size ELSE limit[1]
        recent == Reverse(LastSlice(q, lim))
        Key(k) == Username(i) \o COLON \o recent[k]
        found == {k \in 1..Len(recent) : Key(k) \in DOMAIN c}
        F[k \in 0..Len(recent)] ==
          IF k = 0 THEN <<>>
          ELSE IF k \in found THEN Append(F[k-1], c[Key(k)].original_example)
          ELSE F[k-1]
    IN IF \E k \in found : "original_example" \notin DOMAIN c[Key(k)]
       THEN [raised |-> "KeyError", value |-> <<>>]
       ELSE [raised |-> "", value |-> F[Len(recent)]]

GetRecentTasks(i, limit) ==
    LET r == get_recent_tasks(i, cache, recent_hashes[i], limit)
    IN /\ ret' = [op |-> "get_recent_tasks", tool |-> i, arg |-> limit,
                  result |-> r.value, raised |-> r.raised, ctx |-> <<>>]
       /\ UNCHANGED <<config, cache, recent_hashes, current_task, task_iterator,
                      clock, ghosts, files, inflight>>

\* Round2 that truncates
Round2_truncate(completed, total) == (completed * 10000) \div total

\* round(completed / total * 100, 2) in hundredths, ties to even
Round2(completed, total) ==
    LET num == completed * 10000
        q == num \div total
        r == num % total
    IN IF 2 * r > total THEN q + 1
       ELSE IF 2 * r < total THEN q
       ELSE IF q % 2 = 0 THEN q ELSE q + 1

get_progress(i, c) ==
    LET routed == {k \in 1..Len(data_source) : Routed(i, data_source[k])}
        total == Cardinality(routed)
        completed == Cardinality({k \in routed : _cache_key(i, data_source[k]) \in DOMAIN c})
    IN [total |-> total,
        completed |-> completed,
        remaining |-> total - completed,
        percent_complete |-> IF total > 0 THEN Round2(completed, total) ELSE 0]

GetProgress(i) ==
    /\ ret' = [op |-> "get_progress", tool |-> i, arg |-> None,
               result |-> get_progress(i, cache), raised |-> "", ctx |-> <<>>]
    /\ UNCHANGED <<config, cache, recent_hashes, current_task, task_iterator,
                   clock, ghosts, files, inflight>>

(* ------------------- get_annotations and export ------------------------ *)
\* a metadata mapping that holds the key "example_hash" (with the value "x")
HashMetadata == "MH"

\* the fields of the struct polars builds from a metadata mapping
MetadataFields(metadata) ==
    IF metadata = HashMetadata THEN {"example_hash"} ELSE {}
MetadataField(metadata, field) == <<120>>

\* the username argument: 0 is None, j > 0 is the username of tool j
NoUser == 0

\* the dedup argument: None, an iterable of dicts, a DataFrame, or the path
\* of a file that holds the rows; a path is known by its suffix
NoDedup == [form |-> "None", suffix |-> "", rows |-> {}]

\* the filepath argument of export_annotations, known by its suffix
NoPath == "None"
Paths == {".jsonl", ".JSON", ".parquet", ".csv", ""}
DedupSuffixes == {".parquet", ".csv"}

\* Path(p).suffix.lower()
Lower(suffix) == IF suffix = ".JSON" THEN ".json" ELSE suffix

\* lines 302-309: the records whose key starts with "<username>:", or all
\* of them. The rows of a frame are kept as a set: the iteration order of
\* the store is left out.
_iter_annotations(c, username) ==
    {c[key] : key \in {k \in DOMAIN c :
                 username = NoUser \/ IsPrefix(Username(username) \o COLON, k)}}

\* DataFrame.columns
Columns(rows) == UNION {DOMAIN r : r \in rows}

\* the fields of the struct column "metadata": those of any of its rows
StructFields(rows) ==
    UNION {MetadataFields(r.metadata) : r \in {x \in rows : "metadata" \in DOMAIN x}}

\* pl.col("metadata").struct.field("example_hash") of one row; <<>> is null
_example_hash(r) ==
    IF "metadata" \in DOMAIN r /\ "example_hash" \in MetadataFields(r.metadata)
    THEN MetadataField(r.metadata, "example_hash") ELSE <<>>

\* lines 356-358: the rows of df whose _example_hash matches no row of
\* upstream_df; a null matches nothing
AntiJoin(df, upstream_df) ==
    {r \in df : \/ _example_hash(r) = <<>>
                \/ _example_hash(r) \notin {_example_hash(u) : u \in upstream_df}}

\* lines 311-371 with return_as "list" or "polars"; [raised, value]
get_annotations(c, username, dedup) ==
    LET df == _iter_annotations(c, username)
        upstream_df == dedup.rows
        Raise(e) == [raised |-> e, value |-> {}]
    IN IF dedup.form = "None" THEN [raised |-> "", value |-> df]
       ELSE IF /\ dedup.form = "path"
               /\ Lower(dedup.suffix) \notin {".jsonl", ".ndjson", ".json", ".parquet"}
            THEN Raise("ValueError")
       ELSE IF "metadata" \notin Columns(upstream_df) THEN Raise("ValueError")
       ELSE IF "metadata" \notin Columns(df) THEN Raise("ValueError")
       ELSE IF "example_hash" \notin StructFields(df)
            THEN Raise("StructFieldNotFoundError")
       ELSE IF "example_hash" \notin StructFields(upstream_df)
            THEN Raise("StructFieldNotFoundError")
       ELSE [raised |-> "", value |-> AntiJoin(df, upstream_df)]

GetAnnotations(i, username, dedup) ==
    LET r == get_annotations(cache, username, dedup)
    IN /\ ret' = [op |-> "get_annotations", tool |-> i,
                  arg |-> [username |-> username, dedup |-> dedup],
                  result |-> r.value, raised |-> r.raised, ctx |-> <<>>]
       /\ UNCHANGED <<config, cache, recent_hashes, current_task, task_iterator,
                      clock, ghosts, files, inflight>>

\* df.write_*(path): the file holds the rows in the format of the writer
WriteFile(fs, path, format, df) ==
    [q \in DOMAIN fs \cup {path} |->
        IF q = path THEN [format |-> format, rows |-> df] ELSE fs[q]]

\* the value of df.write_ndjson() / df.write_json(), and "" for parquet
Text(format, df) == [format |-> format, rows |-> df]
EmptyString == [format |-> "", rows |-> {}]

\* _write_dataframe that writes before it looks at the suffix
_write_dataframe_write_first(fs, df, filepath) ==
    LET suffix == Lower(filepath)
    IN IF suffix \in {".jsonl", ".ndjson", ".json", ".parquet"}
       THEN [raised |-> "", value |-> EmptyString, files |-> WriteFile(fs, filepath, "ndjson", df)]
       ELSE [raised |-> "ValueError", value |-> EmptyString,
             files |-> WriteFile(fs, filepath, "ndjson", df)]

\* lines 384-401; [raised, value, files]
_write_dataframe(fs, df, filepath) ==
    LET suffix == Lower(filepath)
    IN IF suffix \in {".jsonl", ".ndjson"}
       THEN [raised |-> "", value |-> Text("ndjson", df),
             files |-> WriteFile(fs, filepath, "ndjson", df)]
       ELSE IF suffix = ".json"
       THEN [raised |-> "", value |-> Text("json", df),
             files |-> WriteFile(fs, filepath, "json", df)]
       ELSE IF suffix = ".parquet"
       THEN [raised |-> "", value |-> EmptyString,
             files |-> WriteFile(fs, filepath, "parquet", df)]
       ELSE [raised |-> "ValueError", value |-> EmptyString, files |-> fs]

\* lines 428-435
ExportAnnotations(i, filepath, dedup) ==
    LET r == get_annotations(cache, NoUser, dedup)
        w == IF r.raised # "" THEN [raised |-> r.raised, value |-> EmptyString, files |-> files]
             ELSE IF filepath = NoPath
                  THEN [raised |-> "", value |-> Text("ndjson", r.value), files |-> files]
             ELSE _write_dataframe(files, r.value, filepath)
    IN /\ files' = w.files
       /\ ret' = [op |-> "export_annotations", tool |-> i,
                  arg |-> [filepath |-> filepath, dedup |-> dedup],
                  result |-> w.value, raised |-> w.raised, ctx |-> <<>>]
       /\ UNCHANGED <<config, cache, recent_hashes, current_task, task_iterator,
                      clock, ghosts, inflight>>

(* --------------------------- specifications ---------------------------- *)
DataSources == {<<1, 2, 3, 4, 5>>, <<>>, <<1, 2, 1, 3>>}
StartClock == 9

InitTool ==
    /\ cache = <<>>
    /\ recent_hashes = [i \in Tools |-> <<>>]
    /\ current_task = [i \in Tools |-> None]
    /\ task_iterator = [i \in Tools |-> None]
    /\ clock = StartClock
    /\ ret = [op |-> "init", tool |-> 0, arg |-> None, result |-> None,
              raised |-> "", ctx |-> <<>>]
    /\ seen = [i \in Tools |-> Unset]
    /\ held = [i \in Tools |-> NotHeld]
    /\ pending = [i \in Tools |-> None]
    /\ loop = NoLoop
    /\ files = <<>>
    /\ inflight = [i \in Tools |-> NoCall]

\* the defaults, and each caller-supplied function next to the other default
Plugins == {<<"default", "default">>, <<"custom", "default">>, <<"default", "custom">>}

\* one tool, the only writer; the label and the clock are not varied
Init ==
    /\ data_source \in DataSources
    /\ \E p \in Plugins : routing_func = p[1] /\ hash_func = p[2]
    /\ recent_history_size \in 1..MaxHistory
    /\ InitTool

Limits == {NoLimit} \cup {<<n>> : n \in 0..MaxLimit}

Next ==
    \E i \in {1} :
       \/ \E example \in Tasks, annotation \in {"L1", StrLabel} :
             Annotate(i, example, annotation, NoMetadata, 0, 0)
       \/ GetCurrentTask(i)
       \/ GetTasks(i)
       \/ \E limit \in Limits : GetRecentTasks(i, limit)
       \/ GetProgress(i)

Spec == Init /\ [][Next]_vars

\* one tool, two tasks; the label, the metadata and the two clock reads of
\* annotate are varied
RecordTasks == {1, 2}

InitRecord ==
    /\ data_source = <<1, 2>>
    /\ routing_func = "default"
    /\ hash_func = "default"
    /\ recent_history_size = 1
    /\ InitTool

NextRecord ==
    \E i \in {1} :
       \/ \E example \in RecordTasks, annotation \in DictLabels \cup {StrLabel},
             metadata \in Metadatas, d1 \in {0, 1}, d2 \in {0, 1} :
             Annotate(i, example, annotation, metadata, d1, d2)
       \/ GetCurrentTask(i)

SpecRecord == InitRecord /\ [][NextRecord]_vars


\* the annotation loop of the docstring of get_current_task (lines 147-149),
\* started on a tool that has been used in any way before:
\*     while task := tool.get_current_task(): tool.annotate(task, label)
Last(q) == q[Len(q)]

StartLoop(i) ==
    /\ ~loop.running
    /\ loop' = [running |-> TRUE, tool |-> i,
                todo |-> {_cache_key(i, data_source[k]) :
                            k \in {j \in 1..Len(data_source) : Yields(i, cache, j)}},
                returned |-> <<>>, annotated |-> 0]
    /\ ret' = [op |-> "start_loop", tool |-> i, arg |-> None, result |-> None,
               raised |-> "", ctx |-> <<>>]
    /\ UNCHANGED <<config, cache, recent_hashes, current_task, task_iterator,
                   clock, seen, held, pending, files, inflight>>

\* one step of the loop: the condition, or the body
LoopStep(i) ==
    /\ loop.running /\ loop.tool = i
    /\ IF Len(loop.returned) = loop.annotated
       THEN GetCurrentTask(i)
       ELSE /\ Last(loop.returned) # None
            /\ Annotate(i, Last(loop.returned), "L1", NoMetadata, 0, 0)

LoopDone ==
    /\ loop.running
    /\ Len(loop.returned) = loop.annotated + 1
    /\ Last(loop.returned) = None

InitLoop ==
    /\ data_source \in DataSources
    /\ \E p \in Plugins : routing_func = p[1] /\ hash_func = p[2]
    /\ recent_history_size = 1
    /\ InitTool

NextLoop ==
    \E i \in {1} :
       \/ ~loop.running /\ \E example \in Tasks :
                               Annotate(i, example, "L1", NoMetadata, 0, 0)
       \/ ~loop.running /\ GetCurrentTask(i)
       \/ StartLoop(i)
       \/ LoopStep(i)

\* the loop is a sequential program: its next step is always taken
SpecLoop == InitLoop /\ [][NextLoop]_vars /\ WF_vars(LoopStep(1))

\* the comparison side of dedup is what a caller can hand in: records taken
\* from a store (this one or another), or rows of another shape

\* the test's invalid_upstream row (test_minimal.py line 441), and the same
\* row with a metadata field
InvalidRow == [example |-> 1, annotation |-> "L1", user |-> <<98>>]
NoDigestRow == [example |-> 1, annotation |-> "L1", user |-> <<98>>,
                metadata |-> EmptyMap]
\* a record of another store: another task, annotated by "b"
ForeignRow == Record(2, 5, "L2", NoMetadata, IsoFormat(StartClock), IsoFormat(StartClock))

DedupRows(c) ==
    (SUBSET {c[k] : k \in DOMAIN c})
       \cup {{InvalidRow}, {NoDigestRow}, {ForeignRow}}

Dedups(c) ==
    {NoDedup}
       \cup {[form |-> f, suffix |-> "", rows |-> R] :
                f \in {"list", "frame"}, R \in DedupRows(c)}
       \cup {[form |-> "path", suffix |-> sfx, rows |-> R] :
                sfx \in DedupSuffixes, R \in DedupRows(c)}

\* three tools with the usernames "a", "b" and "a:a" on one store
StoreTasks == {1, 4}

InitStore ==
    /\ data_source = <<1, 4>>
    /\ routing_func = "default"
    /\ hash_func \in HashFuncs
    /\ recent_history_size = 1
    /\ InitTool

StoreTools == {1, 2, 3}

NextStore ==
    \E i \in StoreTools :
       \/ \E example \in StoreTasks : Annotate(i, example, "L1", NoMetadata, 0, 0)
       \/ \E username \in {NoUser, i} : GetAnnotations(i, username, NoDedup)

SpecStore == InitStore /\ [][NextStore]_vars

\* one tool that annotates one task, with or without an "example_hash" in
\* the metadata, and reads and exports with dedup
InitExport ==
    /\ data_source = <<1, 4>>
    /\ routing_func = "default"
    /\ hash_func = "default"
    /\ recent_history_size = 1
    /\ InitTool

NextExport ==
    \E i \in {1} :
       \/ \E metadata \in {NoMetadata, HashMetadata} :
             Annotate(i, 1, "L1", metadata, 0, 0)
       \/ \E username \in {NoUser, i}, dedup \in Dedups(cache) :
             GetAnnotations(i, username, dedup)
       \/ \E filepath \in {NoPath} \cup Paths, dedup \in Dedups(cache) :
             ExportAnnotations(i, filepath, dedup)

SpecExport == InitExport /\ [][NextExport]_vars

\* one user whose tool is constructed again on the same store at any
\* point (a restart), with every operation that reads the store
InitRestart ==
    /\ data_source \in DataSources
    /\ \E p \in Plugins : routing_func = p[1] /\ hash_func = p[2]
    /\ recent_history_size = 1
    /\ InitTool

NextRestart ==
    \E i \in {1} :
       \/ \E example \in Tasks, annotation \in {"L1", StrLabel} :
             Annotate(i, example, annotation, NoMetadata, 0, 0)
       \/ GetCurrentTask(i)
       \/ GetTasks(i)
       \/ GetRecentTasks(i, NoLimit)
       \/ GetProgress(i)
       \/ GetAnnotations(i, i, NoDedup)
       \/ Construct(i)

SpecRestart == InitRestart /\ [][NextRestart]_vars

\* two instances for the user "a" on one store, in two processes, that
\* annotate the same task: the calls of one may run between the read and
\* the write of an annotate of the other
RaceTools == {1, 4}
RaceLabels == {<<"L1", NoMetadata>>, <<"L2", "M1">>}

InitRace ==
    /\ data_source = <<1, 2>>
    /\ routing_func = "default"
    /\ hash_func = "default"
    /\ recent_history_size = 1
    /\ InitTool

NextRace ==
    \E i \in RaceTools :
       \/ \E l \in RaceLabels, d1 \in {0, 1} :
             BeginAnnotate(i, 1, l[1], l[2], d1)
       \/ EndAnnotate(i, 0)
       \/ inflight[i] = NoCall /\ GetCurrentTask(i)

SpecRace == InitRace /\ [][NextRace]_vars

(* ============================ properties =============================== *)
IsGet == ret.op = "get_current_task"
Saved == ret.op = "annotate" /\ ret.raised = ""
FirstIndex(t) == CHOOSE k \in 1..Len(data_source) :
                    data_source[k] = t /\ \A j \in 1..(k-1) : data_source[j] # t
Min(S) == CHOOSE x \in S : \A y \in S : x <= y

\* C1: when annotate(t) was saved right after get_current_task returned t,
\* the next get_current_task returns a task other than t: the first task
\* after t in data-source order that is routed to the user and has no
\* record under its cache key, or None when there is none.
C1_AdvancesToNext ==
    (IsGet /\ ret.ctx.pending # None) =>
       LET i == ret.tool
           t == ret.ctx.pending
           later == {k \in (FirstIndex(t) + 1)..Len(data_source) :
                       /\ Routed(i, data_source[k])
                       /\ _cache_key(i, data_source[k]) \notin DOMAIN cache}
       IN /\ ret.result # t
          /\ ret.result = IF later = {} THEN None ELSE data_source[Min(later)]

\* the cursor advanced over a task that was annotated out of order
C1_Witness ==
    /\ IsGet /\ ret.ctx.pending # None /\ ret.result # None
    /\ FirstIndex(ret.result) > FirstIndex(ret.ctx.pending) + 1

\* C2: get_current_task calls with no annotate call in between all return
\* the same task, or all None.
C2_StableUntilAnnotate ==
    (IsGet /\ ret.ctx.seen # Unset) => ret.result = ret.ctx.seen

C2_Witness ==
    IsGet /\ ret.ctx.seen \notin {Unset, None} /\ ret.result = ret.ctx.seen

\* C3: an annotate call whose cache key differs from the cache key of the
\* cached current task leaves current_task as it is, and get_current_task
\* returns after such calls the task it returned before them.
C3_OtherKeyKeepsCurrent ==
    [][/\ (/\ ret'.op = "annotate"
           /\ current_task[ret'.tool] # None
           /\ _cache_key(ret'.tool, current_task[ret'.tool]) # ret'.result)
          => current_task'[ret'.tool] = current_task[ret'.tool]
       /\ (/\ ret'.op = "get_current_task"
           /\ held[ret'.tool].task \notin {Unset, None})
          => ret'.result = held[ret'.tool].task]_vars

\* a task further ahead (or behind) was saved, and the cursor still returns
\* the task it returned before
C3_Witness ==
    /\ IsGet /\ ret.ctx.held.task \notin {Unset, None} /\ ret.ctx.held.others
    /\ ret.result = ret.ctx.held.task

\* C4: a task returned by get_current_task is the first task in data-source
\* order that is routed to the user and has no record in the store.
C4_FirstUnannotated ==
    (IsGet /\ ret.result # None) =>
       \E k \in 1..Len(data_source) :
          /\ data_source[k] = ret.result
          /\ Routed(ret.tool, data_source[k])
          /\ _cache_key(ret.tool, data_source[k]) \notin DOMAIN cache
          /\ \A j \in 1..(k-1) :
                \/ ~Routed(ret.tool, data_source[j])
                \/ _cache_key(ret.tool, data_source[j]) \in DOMAIN cache

\* returned while a routed task further ahead already has a record
C4_Witness ==
    /\ IsGet /\ ret.result # None
    /\ \E k \in 1..Len(data_source) :
          /\ k > FirstIndex(ret.result)
          /\ Routed(ret.tool, data_source[k])
          /\ _cache_key(ret.tool, data_source[k]) \in DOMAIN cache

\* C5: the creation_date of a key's record is set by the annotate call that
\* first saves the key, from the clock of that call, and no later step
\* changes it.
C5_CreationDateFirstWriteWins ==
    [][\A key \in DOMAIN cache' :
          IF key \in DOMAIN cache
          THEN cache'[key].creation_date = cache[key].creation_date
          ELSE /\ ret'.op = "annotate" /\ ret'.result = key
               /\ StrLeq(IsoFormat(clock), cache'[key].creation_date)
               /\ StrLeq(cache'[key].creation_date, IsoFormat(clock'))]_vars

\* a record saved again at a later tick than the one it was created at
C5_Witness ==
    /\ Saved /\ ret.ctx.metadata # "absent"
    /\ cache[ret.result].creation_date = IsoFormat(StartClock)
    /\ cache[ret.result].annotation_date = IsoFormat(StartClock + 1)

\* C6: with a clock that does not go back, no step lowers the
\* annotation_date stored under a key, and every stored record has
\* annotation_date >= creation_date (as Python compares the strings).
C6_AnnotationDateMonotone ==
    [][/\ \A key \in DOMAIN cache :
            StrLeq(cache[key].annotation_date, cache'[key].annotation_date)
       /\ \A key \in DOMAIN cache' :
            StrLeq(cache'[key].creation_date, cache'[key].annotation_date)]_vars

\* a re-annotation on the whole second, where isoformat drops the fraction
C6_Witness ==
    /\ Saved /\ ret.ctx.metadata # "absent"
    /\ cache[ret.result].creation_date = <<48, 48, 46, 57>>
    /\ cache[ret.result].annotation_date = <<48, 49>>

\* C7: after a saved annotate(t, label, metadata) the record under t's
\* cache key holds that label and that metadata, the empty mapping when
\* metadata is omitted, whatever the record held before.
C7_LastWriteWins ==
    Saved =>
       /\ ret.result \in DOMAIN cache
       /\ cache[ret.result].annotation = ret.arg[2]
       /\ cache[ret.result].metadata =
             (IF ret.arg[3] = NoMetadata THEN EmptyMap ELSE ret.arg[3])

\* a re-annotation without metadata of a record that had metadata
C7_Witness ==
    /\ Saved /\ ret.ctx.metadata = "M1" /\ ret.arg[3] = NoMetadata
    /\ cache[ret.result].metadata = EmptyMap

\* C8: the recent-history buffer holds at most recent_history_size keys and
\* none twice; a saved annotate puts its key last, keeps the order of the
\* others, keeps the length when the key was in the buffer and drops
\* exactly the oldest key when the key is new and the buffer is full.
C8_RecentHistory ==
    [][\A i \in Tools :
          LET q == recent_hashes[i]
              r == recent_hashes'[i]
              key == ret'.result
              without == SelectSeq(q, LAMBDA x : x # key)
          IN /\ Len(r) <= recent_history_size
             /\ \A a, b \in 1..Len(r) : r[a] = r[b] => a = b
             /\ (ret'.op = "annotate" /\ ret'.raised = "" /\ ret'.tool = i) =>
                   /\ r[Len(r)] = key
                   /\ key \in Range(q) => r = Append(without, key) /\ Len(r) = Len(q)
                   /\ (key \notin Range(q) /\ Len(q) = recent_history_size) =>
                         r = Append(Tail(q), key)
                   /\ (key \notin Range(q) /\ Len(q) < recent_history_size) =>
                         r = Append(q, key)
             /\ ~(ret'.op = "annotate" /\ ret'.raised = "" /\ ret'.tool = i) => r = q]_vars

\* a new key was saved while the buffer held two keys, its capacity
C8_Witness ==
    /\ Saved /\ ~ret.ctx.in_recent
    /\ ret.ctx.recent_len = 2 /\ recent_history_size = 2
    /\ Len(recent_hashes[ret.tool]) = 2

\* C9: get_recent_tasks(limit) returns the original tasks of the most
\* recently annotated keys, most recent first, min(limit, size of the
\* buffer) of them, limit being recent_history_size when omitted.
C9_RecentTasksReturned ==
    ret.op = "get_recent_tasks" =>
       LET i == ret.tool
           q == recent_hashes[i]
           lim == IF ret.arg = NoLimit THEN recent_history_size ELSE ret.arg[1]
           n == IF lim < Len(q) THEN lim ELSE Len(q)
       IN /\ ret.raised = ""
          /\ ret.result = [k \in 1..n |-> cache[q[Len(q) + 1 - k]].example]

\* C10: get_progress returns the number of routed entries of the data
\* source as total, the number of those with a record at the time of the
\* call as completed, total - completed as remaining, and completed/total*100
\* rounded to two decimals (0.0 when total is 0) as percent_complete.
C10_Progress ==
    ret.op = "get_progress" =>
       LET i == ret.tool
           routed == SelectSeq(data_source, LAMBDA t : Routed(i, t))
           done == SelectSeq(routed, LAMBDA t : _cache_key(i, t) \in DOMAIN cache)
           p == ret.result.percent_complete
       IN /\ ret.result.total = Len(routed)
          /\ ret.result.completed = Len(done)
          /\ ret.result.remaining = Len(routed) - Len(done)
          /\ IF Len(routed) = 0 THEN p = 0
             ELSE /\ 2 * (p * Len(routed) - Len(done) * 10000) <= Len(routed)
                  /\ 2 * (Len(done) * 10000 - p * Len(routed)) <= Len(routed)

\* five tasks, three of them annotated: 60.0 percent
C10_Witness ==
    /\ ret.op = "get_progress"
    /\ ret.result = [total |-> 5, completed |-> 3, remaining |-> 2,
                     percent_complete |-> 6000]


\* C11: the annotation loop ends, whatever the store held at its start: it
\* never gets the same task twice, it annotates once per cache key of the
\* routed tasks that had no record at its start, and when
\* get_current_task returns None get_progress has completed = total and
\* remaining = 0.
C11_LoopState ==
    loop.running =>
       LET i == loop.tool
           got == SelectSeq(loop.returned, LAMBDA t : t # None)
       IN /\ \A a, b \in 1..Len(got) : got[a] = got[b] => a = b
          /\ \A a \in 1..Len(got) : _cache_key(i, got[a]) \in loop.todo
          /\ loop.annotated <= Cardinality(loop.todo)
          /\ LoopDone =>
                /\ loop.annotated = Cardinality(loop.todo)
                /\ {_cache_key(i, got[a]) : a \in 1..Len(got)} = loop.todo
                /\ get_progress(i, cache).completed = get_progress(i, cache).total
                /\ get_progress(i, cache).remaining = 0

C11_LoopTerminates == []C11_LoopState /\ (loop.running ~> LoopDone)

\* the loop ended after three annotations on a store that held a record
C11_Witness ==
    /\ LoopDone /\ loop.annotated = 3
    /\ Cardinality(DOMAIN cache) > 3

\* C12: a get_current_task call that follows, with no annotate call in
\* between, a get_current_task call that returned None returns None too,
\* and leaves the cursor without a cached task.
C12_AbsentStays ==
    [][(ret'.op = "get_current_task" /\ seen[ret'.tool] = None) =>
          /\ ret'.result = None
          /\ current_task'[ret'.tool] = None
          /\ seen'[ret'.tool] = None]_vars

\* None again, on a data source whose tasks all have a record
C12_Witness ==
    /\ IsGet /\ ret.ctx.seen = None /\ ret.result = None
    /\ Len(data_source) = 5 /\ Cardinality(DOMAIN cache) = 5

\* C13: list(get_tasks()) is the data source restricted, in order, to the
\* tasks that are routed to the user and have no record; the call leaves
\* the cursor as it is; and a get_tasks call next to a get_current_task
\* call of the same tool starts with the task the cursor returned (an empty
\* list with None).
First(s) == IF Len(s) = 0 THEN None ELSE s[1]

C13_BulkIteration ==
    [][/\ ret'.op = "get_tasks" =>
            /\ ret'.result = SelectSeq(data_source, LAMBDA t :
                                 /\ Routed(ret'.tool, t)
                                 /\ _cache_key(ret'.tool, t) \notin DOMAIN cache)
            /\ current_task' = current_task
            /\ task_iterator' = task_iterator
            /\ (ret.op = "get_current_task" /\ ret.tool = ret'.tool) =>
                   First(ret'.result) = ret.result
       /\ (/\ ret'.op = "get_current_task" /\ ret.op = "get_tasks"
           /\ ret.tool = ret'.tool) =>
              ret'.result = First(ret.result)]_vars

\* a list of two tasks taken while the cursor holds the first of them, a
\* task before it having a record and the tasks between them being unrouted
C13_Witness ==
    /\ ret.op = "get_tasks" /\ routing_func = "custom"
    /\ ret.result = <<3, 5>> /\ current_task[ret.tool] = 3
    /\ task_iterator[ret.tool] = 4

\* C14: on a store that holds records, get_annotations(dedup=U) and
\* export_annotations(dedup=U), U being records of a store given as a list,
\* a DataFrame or a readable file, return the local records whose example_hash is the example_hash of no
\* record of U.
IsRead == ret.op \in {"get_annotations", "export_annotations"}
Readable(dedup) ==
    dedup.form \in {"list", "frame"} \/
    (dedup.form = "path" /\ Lower(dedup.suffix) \in {".jsonl", ".ndjson", ".json", ".parquet"})
Stored == {cache[k] : k \in DOMAIN cache}

C14_DedupByDigest ==
    (/\ IsRead /\ Readable(ret.arg.dedup)
     /\ Stored # {} /\ ret.arg.dedup.rows # {}
     /\ \A u \in ret.arg.dedup.rows : "example_hash" \in DOMAIN u
     /\ ret.op = "export_annotations" => ret.arg.filepath = NoPath) =>
       LET username == IF ret.op = "export_annotations" THEN NoUser
                       ELSE ret.arg.username
           local == {r \in Stored : username = NoUser \/ r.user = Username(username)}
           expected == {r \in local : r.example_hash \notin
                           {u.example_hash : u \in ret.arg.dedup.rows}}
       IN /\ ret.raised = ""
          /\ IF ret.op = "get_annotations" THEN ret.result = expected
             ELSE ret.result.rows = expected

\* C15: get_annotations(dedup=U), where U has rows and none of them holds
\* the digest, raises ValueError.
C15_RejectsMissingDigest ==
    (/\ ret.op = "get_annotations" /\ ret.arg.dedup.form # "None"
     /\ ret.arg.dedup.rows # {}
     /\ \A u \in ret.arg.dedup.rows :
           "example_hash" \notin DOMAIN u /\ _example_hash(u) = <<>>) =>
       ret.raised = "ValueError"

\* C16: get_annotations(username=u) returns the records of the store whose
\* user field is u, and get_annotations() returns all the records.
C16_FilterByUser ==
    (ret.op = "get_annotations" /\ ret.arg.dedup = NoDedup) =>
       /\ ret.raised = ""
       /\ ret.result = {r \in Stored : \/ ret.arg.username = NoUser
                                       \/ r.user = Username(ret.arg.username)}

\* C17: export_annotations to a filepath whose suffix is not one of .jsonl,
\* .ndjson, .json, .parquet raises (ValueError when no dedup is asked for)
\* and leaves every file as it is; a dedup path with such a suffix makes
\* get_annotations and export_annotations raise ValueError, no file being
\* written.
Unsupported(suffix) == Lower(suffix) \notin {".jsonl", ".ndjson", ".json", ".parquet"}

C17_UnsupportedSuffix ==
    [][/\ (/\ ret'.op = "export_annotations"
           /\ ret'.arg.filepath # NoPath /\ Unsupported(ret'.arg.filepath)) =>
              /\ ret'.raised # ""
              /\ ret'.arg.dedup = NoDedup => ret'.raised = "ValueError"
              /\ files' = files
       /\ (/\ ret'.op \in {"get_annotations", "export_annotations"}
           /\ ret'.arg.dedup.form = "path" /\ Unsupported(ret'.arg.dedup.suffix)) =>
              /\ ret'.raised = "ValueError"
              /\ files' = files]_vars

\* an export of a record to .csv raised ValueError after an export to
\* .jsonl had written its file
C17_Witness ==
    /\ ret.op = "export_annotations" /\ ret.arg.filepath = ".csv"
    /\ ret.arg.dedup = NoDedup /\ ret.raised = "ValueError"
    /\ DOMAIN files = {".jsonl"} /\ files[".jsonl"].rows = {}
    /\ DOMAIN cache # {}

\* C18: annotate(t, label) with a mapping as label raises nothing and
\* stores a record of t and the label under t's key, whether or not t is
\* the current task, has a record, is routed to the user or is in the data
\* source.
C18_AnyTaskIsSaved ==
    (ret.op = "annotate" /\ ret.arg[2] \in DictLabels) =>
       /\ ret.raised = ""
       /\ ret.result = _cache_key(ret.tool, ret.arg[1])
       /\ ret.result \in DOMAIN cache
       /\ cache[ret.result].example = ret.arg[1]
       /\ cache[ret.result].user = Username(ret.tool)

\* a second annotation of a task that is not in the data source and not
\* routed to the user, while the cursor holds another task
C18_Witness ==
    /\ Saved /\ ret.arg[1] = 4 /\ data_source = <<1, 2, 1, 3>>
    /\ ~Routed(ret.tool, 4)
    /\ ret.ctx.metadata # "absent"
    /\ current_task[ret.tool] = 1

\* C19: get_recent_tasks raises nothing.
C19_RecentNeverRaises ==
    ret.op = "get_recent_tasks" => ret.raised = ""

\* C20: the cache key of an annotate call is the key of no other pair of a
\* username and a hash value.
C20_KeyUnique ==
    ret.op = "annotate" =>
       \A j \in Tools, t \in Tasks :
          _cache_key(j, t) = ret.result =>
             /\ Username(j) = Username(ret.tool)
             /\ ApplyHash(hash_func, t) = ApplyHash(hash_func, ret.arg[1])

\* C21: with two instances for one user on one store, a saved annotate
\* leaves in the store its own label and metadata (the last write is the
\* one the store holds, no other step changing a record), and changes
\* neither the recent-history buffer nor the cursor of the other instance.
C21_LastWriterWins ==
    [][/\ (ret'.op = "annotate" /\ ret'.raised = "") =>
             /\ ret'.result \in DOMAIN cache'
             /\ cache'[ret'.result].annotation = ret'.arg[2]
             /\ cache'[ret'.result].metadata =
                   (IF ret'.arg[3] = NoMetadata THEN EmptyMap ELSE ret'.arg[3])
             /\ \A j \in Tools \ {ret'.tool} :
                   /\ recent_hashes'[j] = recent_hashes[j]
                   /\ current_task'[j] = current_task[j]
                   /\ task_iterator'[j] = task_iterator[j]
       /\ ret'.op # "annotate" => cache' = cache]_vars

\* the second instance wrote the task over the record of the first while
\* the first was between the read and the write of another annotate of it
C21_Witness ==
    /\ Saved /\ ret.tool = 4 /\ ret.arg[2] = "L2"
    /\ ret.ctx.metadata = EmptyMap
    /\ cache[ret.result].metadata = "M1"
    /\ recent_hashes[1] = <<ret.result>> /\ current_task[1] = 2
    /\ inflight[1] # NoCall

\* C22: the first get_current_task of a tool constructed on the store
\* returns what the instance it replaces would have returned at that point.
C22_Rebuildable ==
    [][(/\ ret.op = "construct" /\ ret'.op = "get_current_task"
        /\ ret'.tool = ret.tool) => ret'.result = ret.ctx.live]_vars

\* a tool built after two tasks were annotated returns the third: its
\* buffer is empty while the store holds the user's records
C22_Witness ==
    /\ IsGet /\ ret.result = 3 /\ ret.ctx.seen = Unset
    /\ recent_hashes[ret.tool] = <<>>
    /\ Cardinality(DOMAIN cache) = 2
    /\ data_source = <<1, 2, 3, 4, 5>>

\* C23: a get_current_task call that scans does not examine again a
\* position of the data source that an earlier call examined: after a call
\* that reached the end of the data source (it returned None), the scan of
\* the next call starts past the end.
ScanStart(i) == IF task_iterator[i] = None THEN 1 ELSE task_iterator[i]

C23_ScanNeverRestarts ==
    [][(/\ ret'.op = "get_current_task"
        /\ current_task[ret'.tool] = None
        /\ seen[ret'.tool] = None) =>
          ScanStart(ret'.tool) > Len(data_source)]_vars

\* C23 as amended: while the generator of a tool lives its position never
\* goes back; a call that scans and returns a task started at or before
\* that task and leaves the generator just past it; and the generator is
\* dropped only by a get_current_task call that returns None.
C23_ScanResumes ==
    [][\A i \in Tools :
          /\ (task_iterator[i] # None /\ task_iterator'[i] # None) =>
                task_iterator'[i] >= task_iterator[i]
          /\ (task_iterator[i] # None /\ task_iterator'[i] = None) =>
                ret'.op = "get_current_task" /\ ret'.tool = i /\ ret'.result = None
          /\ (/\ ret'.op = "get_current_task" /\ ret'.tool = i
              /\ current_task[i] = None /\ ret'.result # None) =>
                /\ FirstIndex(ret'.result) >= ScanStart(i)
                /\ task_iterator'[i] = FirstIndex(ret'.result) + 1]_vars

\* task 2 was annotated as the current task and the next call, resuming
\* at position 3, returned task 3
C23_Witness ==
    /\ IsGet /\ ret.ctx.pending = 2 /\ ret.result = 3
    /\ task_iterator[ret.tool] = 4

\* C24: the buffer of a tool changes only in a saved annotate of that tool
\* and in its construction, which leaves it empty whatever the store holds;
\* get_recent_tasks of a tool just constructed returns []; and
\* get_current_task, get_tasks, get_progress, get_recent_tasks and
\* get_annotations leave every buffer as it is.
C24_BufferIsLocal ==
    [][/\ \A i \in Tools :
            recent_hashes'[i] # recent_hashes[i] =>
               \/ ret'.op = "annotate" /\ ret'.raised = "" /\ ret'.tool = i
               \/ ret'.op = "construct" /\ ret'.tool = i
       /\ ret'.op = "construct" => recent_hashes'[ret'.tool] = <<>>
       /\ (ret.op = "construct" /\ ret'.op = "get_recent_tasks") =>
             ret'.raised = "" /\ ret'.result = <<>>
       /\ ret'.op \in {"get_current_task", "get_tasks", "get_progress",
                       "get_recent_tasks", "get_annotations"} =>
             recent_hashes' = recent_hashes]_vars

\* get_recent_tasks returned [] on a tool with an empty buffer while the
\* store holds a record of its user
C24_Witness ==
    /\ ret.op = "get_recent_tasks" /\ ret.result = <<>> /\ ret.raised = ""
    /\ recent_hashes[ret.tool] = <<>>
    /\ \E k \in DOMAIN cache : cache[k].user = Username(ret.tool)

\* C25: annotate(task, label) with a string as label raises nothing and
\* stores the record with that label, and the cursor leaves the task when
\* it is the current one.
C25_StringLabelAccepted ==
    (ret.op = "annotate" /\ ret.arg[2] = StrLabel) =>
       /\ ret.raised = ""
       /\ ret.result \in DOMAIN cache
       /\ cache[ret.result].annotation = StrLabel
       /\ current_task[ret.tool] # ret.arg[1]

\* C26: with one instance as the only writer, the cached current task,
\* when there is one, has no record under its cache key and is routed to
\* the user.
C26_CurrentIsOpen ==
    \A i \in Tools :
       current_task[i] # None =>
          /\ _cache_key(i, current_task[i]) \notin DOMAIN cache
          /\ Routed(i, current_task[i])

\* the cursor holds a task after a task further ahead was saved
C26_Witness ==
    /\ Saved /\ ret.arg[1] = 3 /\ hash_func = "default"
    /\ current_task[ret.tool] = 2
    /\ Cardinality(DOMAIN cache) = 2

\* C27: an annotate call that raises leaves the store, the buffer and the
\* cursor as they were.
C27_RaiseChangesNothing ==
    [][(ret'.op = "annotate" /\ ret'.raised # "") =>
          /\ cache' = cache
          /\ recent_hashes' = recent_hashes
          /\ current_task' = current_task
          /\ task_iterator' = task_iterator]_vars

\* the call raised on the current task, which has no record and is still
\* the current task, the buffer holding the key of an earlier call
C27_Witness ==
    /\ ret.op = "annotate" /\ ret.raised = "ValidationError"
    /\ current_task[ret.tool] = ret.arg[1]
    /\ ret.result \notin DOMAIN cache
    /\ recent_hashes[ret.tool] # <<>>

\* C28: with two instances for one user whose annotate calls on one task
\* interleave between the read and the write, no step changes the
\* creation_date of a record that is in the store.
C28_CreationDateUnderRace ==
    [][\A key \in DOMAIN cache :
          /\ key \in DOMAIN cache'
          /\ cache'[key].creation_date = cache[key].creation_date]_vars

\* C29: every record is stored under user + ":" + example_hash, its
\* example_hash being hash_func of its example; and an annotate of a key
\* that has a record leaves the number of records of get_annotations() as
\* it was.
C29_KeyOfRecord ==
    \A k \in DOMAIN cache :
       /\ k = cache[k].user \o COLON \o cache[k].example_hash
       /\ cache[k].example_hash = ApplyHash(hash_func, cache[k].example)

C29_OneRecordPerKey ==
    /\ []C29_KeyOfRecord
    /\ [][/\ (ret'.op = "annotate" /\ ret'.result \in DOMAIN cache) =>
                Cardinality(_iter_annotations(cache', NoUser)) =
                   Cardinality(_iter_annotations(cache, NoUser))
          /\ ret'.op = "get_annotations" /\ ret'.arg.username = NoUser =>
                Cardinality(ret'.result) = Cardinality(DOMAIN cache)]_vars

\* "a:a" annotated again the key that "a" had written with a hash that
\* holds a colon
C29_Witness ==
    /\ Saved /\ ret.tool = 3 /\ ret.ctx.metadata # "absent"
    /\ hash_func = "custom" /\ ret.arg[1] = 1
    /\ Cardinality(DOMAIN cache) = 3

\* C30: a step keeps every record of the store, changes or adds a record
\* only under the cache key of the annotate call it is, and
\* get_current_task, get_tasks, get_progress, get_recent_tasks and
\* get_annotations leave the store as it is.
C30_OnlyAnnotateWrites ==
    [][/\ \A key \in DOMAIN cache :
            /\ key \in DOMAIN cache'
            /\ cache'[key] # cache[key] => ret'.op = "annotate" /\ ret'.result = key
       /\ \A key \in DOMAIN cache' \ DOMAIN cache :
            ret'.op = "annotate" /\ ret'.result = key
       /\ ret'.op \in {"get_current_task", "get_tasks", "get_progress",
                       "get_recent_tasks", "get_annotations"} =>
             cache' = cache]_vars

\* a fourth key was written, the three others keeping their records
C30_Witness ==
    /\ Saved /\ ret.ctx.metadata = "absent"
    /\ Cardinality(DOMAIN cache) = 4

\* C31: an annotate call of a tool changes nothing of what a tool with
\* another username gets from get_tasks, get_current_task and
\* get_progress: each of them returns after the call what it returned
\* before it, as in the run without the call.
C31_NoInterference ==
    [][ret'.op = "annotate" =>
          \A j \in Tools :
             Username(j) # Username(ret'.tool) =>
                /\ get_tasks(j, cache') = get_tasks(j, cache)
                /\ get_progress(j, cache') = get_progress(j, cache)
                /\ ResolveCurrent(current_task'[j], NextYield(j, cache', ScanStart(j)))
                      = ResolveCurrent(current_task[j], NextYield(j, cache, ScanStart(j)))]_vars

\* C32: get_progress returns 0 <= completed <= total, remaining >= 0,
\* completed + remaining = total and a percent_complete between 0 and 100
\* (in hundredths), and no step lowers the completed it returns.
C32_ProgressBounds ==
    ret.op = "get_progress" =>
       LET r == ret.result
       IN /\ 0 <= r.completed /\ r.completed <= r.total
          /\ r.remaining >= 0
          /\ r.completed + r.remaining = r.total
          /\ 0 <= r.percent_complete /\ r.percent_complete <= 10000

C32_ProgressInRange ==
    /\ []C32_ProgressBounds
    /\ [][\A i \in Tools :
             get_progress(i, cache').completed >= get_progress(i, cache).completed]_vars

\* task 1, which the data source holds twice, and task 5, which it does
\* not hold, have a record: completed is 2 of 4
C32_Witness ==
    /\ ret.op = "get_progress" /\ data_source = <<1, 2, 1, 3>>
    /\ ret.result.completed = 2 /\ ret.result.total = 4
    /\ ret.result.percent_complete = 5000
    /\ Cardinality(DOMAIN cache) = 2
    /\ _cache_key(ret.tool, 5) \in DOMAIN cache

====
